---- MODULE Spec2Model ----
(***************************************************************************)
(* Model of cubi_sak: the safe file writer (common.overwrite_helper) and   *)
(* the SODAR client (sodar/api.py): URL normalisation, landing zone        *)
(* creation with implicit assay resolution, and sample sheet assembly.     *)
(*                                                                         *)
(* Text is a sequence of characters; "LF" and "CR" stand for "\n" and      *)
(* "\r".  Three specifications share the module: SpecWriter, SpecApi and   *)
(* SpecSheet, one per component.                                           *)
(***************************************************************************)
EXTENDS Integers, Sequences, FiniteSets, TLC

VARIABLES
    \* ---- overwrite_helper (common.py) ----
    args,        \* the arguments of the call: out_path, contents, do_write, ...
    fs,          \* the file system: path -> text of the file, or Absent
    fs0,         \* the file system when the call started (history)
    sheet_file,  \* the NamedTemporaryFile: state ("none", "open", "closed") and text
    out_file,    \* the rendered diff lines printed to out_file
    notice,      \* whether "File %s not changed, no diff..." was logged
    stdout,      \* the text copied to sys.stdout
    prompts,     \* number of input("Is this OK? [yN] ") calls
    response,    \* what input() returned, or NoResponse
    pc,          \* position in overwrite_helper
    \* ---- sodar/api.py: module functions ----
    server,      \* the investigation the server holds: study -> set of assays
    call,        \* the last API call and its arguments
    requests,    \* the HTTP requests that call issued, in order
    result,      \* how that call ended
    \* ---- sodar/api.py: _SheetClient ----
    sheet_call,    \* the last _SheetClient.get call: client, argument, payload
    reader_calls,  \* the ISA-tab reader invocations of that call, in order
    sheet_result   \* how that call ended, with the bundle if one was returned

wvars == <<args, fs, fs0, sheet_file, out_file, notice, stdout, prompts, response, pc>>
avars == <<server, call, requests, result>>
svars == <<sheet_call, reader_calls, sheet_result>>
vars == <<wvars,
                 avars, svars>>

\* ------------------------------------------------------------------ bounds

MaxLen == 2        \* longest contents passed to overwrite_helper
MaxOldLen == 2     \* longest text of a file already on disk
MaxUrlLen == 3     \* longest sodar_url
MaxStudies == 2    \* most studies in a sample sheet payload
MaxAssays == 2     \* most assays in a sample sheet payload

SeqsUpTo(S, n) == UNION {[1..k -> S] : k \in 0..n}

\* ------------------------------------------------------------ text helpers

Chars == {"a", "LF", "CR"}
\* A path with no file, and a file holding text t.
Absent == [exists |-> FALSE, text |-> <<>>]
File(t) == [exists |-> TRUE, text |-> t]
NoResponse == <<"NoResponse">>

DropFirst(s, n) == SubSeq(s, n + 1, Len(s))

\* Reading a text-mode file opened with newline=None (the default of
\* NamedTemporaryFile(mode="w+t") and of Path.open("rt")): universal newlines,
\* "\r\n" and "\r" come back as "\n".
RECURSIVE UniversalNewlines(_)
UniversalNewlines(s) ==
    IF s = <<>> THEN <<>>
    ELSE IF s[1] = "CR"
         THEN IF Len(s) > 1 /\ s[2] = "LF"
              THEN <<"LF">> \o UniversalNewlines(DropFirst(s, 2))
              ELSE <<"LF">> \o UniversalNewlines(DropFirst(s, 1))
         ELSE <<s[1]>> \o UniversalNewlines(DropFirst(s, 1))

\* str.splitlines(keepends=False): lines end at "\n", "\r" or "\r\n"; no
\* empty last line after a final terminator.
RECURSIVE SplitFrom(_, _)
SplitFrom(s, cur) ==
    IF s = <<>> THEN (IF cur = <<>> THEN <<>> ELSE <<cur>>)
    ELSE IF s[1] = "LF" THEN <<cur>> \o SplitFrom(DropFirst(s, 1), <<>>)
    ELSE IF s[1] = "CR"
         THEN <<cur>> \o SplitFrom(
                  IF Len(s) > 1 /\ s[2] = "LF" THEN DropFirst(s, 2) ELSE DropFirst(s, 1),
                  <<>>)
    ELSE SplitFrom(DropFirst(s, 1), Append(cur, s[1]))

splitlines(s) == SplitFrom(s, <<>>)

\* f.read() on a text-mode file holding `text`.
ReadText(text) == UniversalNewlines(text)

\* str.lower() on the characters a response is made of.
LowerChar(c) == CASE c = "Y" -> "y" [] c = "N" -> "n" [] OTHER -> c
lower(s) == [i \in 1..Len(s) |-> LowerChar(s[i])]
startswith(s, c) == Len(s) >= 1 /\ s[1] = c

\* What the user may type at the prompt.
Responses == {<<>>, <<"y">>, <<"Y">>, <<"Y", "e", "s">>, <<"n">>, <<"N">>, <<"n", "y">>}

\* --------------------------------------------- calls and their outcomes

None == "None"

\* The functions of the module keep no state between calls: a behaviour is
\* one call, from the arguments to the requests issued and the outcome.
Call(op, sodar_url, id, assay_uuid) ==
    [op |-> op, sodar_url |-> sodar_url, id |-> id, assay_uuid |-> assay_uuid]

NoCall == Call("none", <<>>, None, None)

NoArgs ==
    [out_path |-> "-", contents |-> <<>>, do_write |-> FALSE, show_diff |-> FALSE,
     show_diff_side_by_side |-> FALSE, answer_yes |-> FALSE]

\* File paths are <<kind, number>>; NoPath where an argument is not given.
NoPath == <<"none", 0>>

NoBundle == [investigation_filename |-> NoPath, studies |-> <<>>, assays |-> <<>>]

SheetResult(kind, bundle) == [kind |-> kind, bundle |-> bundle]

SheetCall(op, owner_project_uuid, project_uuid, studies, assays, http_ok, fail_at) ==
    [op |-> op, owner_project_uuid |-> owner_project_uuid,
     project_uuid |-> project_uuid, studies |-> studies, assays |-> assays,
     http_ok |-> http_ok, fail_at |-> fail_at]

NoSheetCall == SheetCall("none", None, None, <<>>, <<>>, TRUE, 0)
NoSheetResult == SheetResult("none", NoBundle)

\* ------------------------------------------------------- overwrite_helper

Paths == {"-", "f"}
Contents == SeqsUpTo(Chars, MaxLen)
OldContents == SeqsUpTo(Chars, MaxOldLen)

\* The lines a diff marks: the old lines outside the common prefix and suffix
\* as "-" lines and the new ones as "+" lines, after the header lines; nothing
\* at all when the two line sequences are equal (difflib.unified_diff yields
\* nothing for equal inputs).
RECURSIVE CommonPrefix(_, _)
CommonPrefix(a, b) ==
    IF a # <<>> /\ b # <<>> /\ a[1] = b[1]
    THEN 1 + CommonPrefix(DropFirst(a, 1), DropFirst(b, 1))
    ELSE 0

Reverse(s) == [i \in 1..Len(s) |-> s[Len(s) + 1 - i]]

DiffLines(old_lines, new_lines) ==
    IF old_lines = new_lines THEN <<>>
    ELSE LET p  == CommonPrefix(old_lines, new_lines)
             o1 == DropFirst(old_lines, p)
             n1 == DropFirst(new_lines, p)
             q  == CommonPrefix(Reverse(o1), Reverse(n1))
             o2 == SubSeq(o1, 1, Len(o1) - q)
             n2 == SubSeq(n1, 1, Len(n1) - q)
         IN  <<"---", "+++", "@@">>
             \o [i \in 1..Len(o2) |-> <<"-", o2[i]>>]
             \o [i \in 1..Len(n2) |-> <<"+", n2[i]>>]

\* Lines 156-160: the lines to compare against: the destination's, when it is
\* not "-" and exists, else none.
OldLines(out_path, fsys) ==
    IF out_path # "-" /\ fsys[out_path].exists
    THEN splitlines(ReadText(fsys[out_path].text))
    ELSE <<>>

\* Line 197, `if not lines`: `lines` is the generator difflib.unified_diff
\* (or icdiff's make_table) returned, and a generator object is true whatever
\* it yields.
GeneratorIsTrue(lines) == TRUE
NotLines(lines) == ~GeneratorIsTrue(lines)

WriteTargetAlways(do_write, out_path) ==
    IF out_path = "-" THEN "stdout" ELSE "file"

\* Lines 201-206: which branch the copy takes.
WriteTarget(do_write, out_path) ==
    IF ~do_write THEN "skip"
    ELSE IF out_path = "-" THEN "stdout" ELSE "file"

\* Line 208, left operand of `and`: input() is called only when it is true.
CallsInput(answer_yes) == ~answer_yes

ConfirmedNoLower(answer_yes, resp) ==
    ~answer_yes /\ startswith(resp, "y")

\* Line 208: `not answer_yes and input(...).lower().startswith("y")`; resp is
\* what input() returned when it was called.
Confirmed(answer_yes, resp) ==
    ~answer_yes /\ startswith(lower(resp), "y")

ReleaseUnlessRaised(raised) == IF raised THEN "open" ELSE "closed"

\* Line 150: leaving the `with` block closes, and so deletes, the temporary
\* file, whether the block ended normally or by an exception.
ReleaseOnExit(raised) == "closed"

\* Before the call: any arguments, any destination, nothing staged or printed.
WriterInit ==
    /\ args \in [out_path : Paths, contents : Contents, do_write : BOOLEAN,
                 show_diff : BOOLEAN, show_diff_side_by_side : BOOLEAN,
                 answer_yes : BOOLEAN]
    /\ fs \in [Paths -> {File(t) : t \in OldContents} \cup {Absent}]
    /\ fs["-"] \in {Absent, File(<<"a">>)}
    /\ fs0 = fs
    /\ sheet_file = [state |-> "none", text |-> <<>>]
    /\ out_file = <<>>
    /\ notice = FALSE
    /\ stdout = <<>>
    /\ prompts = 0
    /\ response = NoResponse
    /\ pc = "start"
    /\ server = <<>>
    /\ call = NoCall
    /\ requests = <<>>
    /\ result = "none"
    /\ sheet_call = NoSheetCall
    /\ reader_calls = <<>>
    /\ sheet_result = NoSheetResult

\* Lines 150-152: create the temporary file and write the contents to it.
Stage ==
    /\ pc = "start"
    /\ sheet_file' = [state |-> "open", text |-> args.contents]
    /\ pc' = "staged"
    /\ UNCHANGED <<args, fs, fs0, out_file, notice, stdout, prompts, response,
                 avars, svars>>

\* Line 155 false: no diff.
SkipDiff ==
    /\ pc = "staged"
    /\ ~args.show_diff
    /\ pc' = "diffed"
    /\ UNCHANGED <<args, fs, fs0, sheet_file, out_file, notice, stdout, prompts, response,
                 avars, svars>>

\* Lines 155-198: read both sides, render the diff in either mode to out_file,
\* then the "not changed" notice.
ShowDiff ==
    /\ pc = "staged"
    /\ args.show_diff
    /\ LET old_lines == OldLines(args.out_path, fs)
           new_lines == splitlines(ReadText(sheet_file.text))
           lines     == DiffLines(old_lines, new_lines)
       IN  /\ out_file' = lines
           /\ notice' = NotLines(lines)
    /\ pc' = "diffed"
    /\ UNCHANGED <<args, fs, fs0, sheet_file, stdout, prompts, response,
                 avars, svars>>

\* Lines 157-194: reading the destination or rendering raises.
ShowDiffRaises ==
    /\ pc = "staged"
    /\ args.show_diff
    /\ pc' = "raising"
    /\ UNCHANGED <<args, fs, fs0, sheet_file, out_file, notice, stdout, prompts, response,
                 avars, svars>>

\* Line 201 false: nothing is written.
SkipWrite ==
    /\ pc = "diffed"
    /\ WriteTarget(args.do_write, args.out_path) = "skip"
    /\ pc' = "leaving"
    /\ UNCHANGED <<args, fs, fs0, sheet_file, out_file, notice, stdout, prompts, response,
                 avars, svars>>

\* Lines 203-205: copy the temporary file to sys.stdout.
CopyToStdout ==
    /\ pc = "diffed"
    /\ WriteTarget(args.do_write, args.out_path) = "stdout"
    /\ stdout' = stdout \o ReadText(sheet_file.text)
    /\ pc' = "leaving"
    /\ UNCHANGED <<args, fs, fs0, sheet_file, out_file, notice, prompts, response,
                 avars, svars>>

\* Line 208 with answer_yes: `not answer_yes` is false, input() is not called
\* and the body of the `if` is skipped.
NoPrompt ==
    /\ pc = "diffed"
    /\ WriteTarget(args.do_write, args.out_path) = "file"
    /\ ~CallsInput(args.answer_yes)
    /\ pc' = IF Confirmed(args.answer_yes, <<>>) THEN "writing" ELSE "leaving"
    /\ UNCHANGED <<args, fs, fs0, sheet_file, out_file, notice, stdout, prompts, response,
                 avars, svars>>

\* Line 208: input() returns what the user typed.
Prompt ==
    /\ pc = "diffed"
    /\ WriteTarget(args.do_write, args.out_path) = "file"
    /\ CallsInput(args.answer_yes)
    /\ \E r \in Responses :
          /\ response' = r
          /\ pc' = IF Confirmed(args.answer_yes, r) THEN "writing" ELSE "leaving"
    /\ prompts' = prompts + 1
    /\ UNCHANGED <<args, fs, fs0, sheet_file, out_file, notice, stdout,
                 avars, svars>>

\* Line 208: input() raises (EOFError, KeyboardInterrupt).
PromptRaises ==
    /\ pc = "diffed"
    /\ WriteTarget(args.do_write, args.out_path) = "file"
    /\ CallsInput(args.answer_yes)
    /\ prompts' = prompts + 1
    /\ pc' = "raising"
    /\ UNCHANGED <<args, fs, fs0, sheet_file, out_file, notice, stdout, response,
                 avars, svars>>

\* Lines 209-210: open the destination for writing and copy the temporary
\* file into it.
WriteFile ==
    /\ pc = "writing"
    /\ fs' = [fs EXCEPT ![args.out_path] = File(ReadText(sheet_file.text))]
    /\ pc' = "leaving"
    /\ UNCHANGED <<args, fs0, sheet_file, out_file, notice, stdout, prompts, response,
                 avars, svars>>

\* Lines 209-210 raise: open() fails and leaves the destination as it was, or
\* the copy fails after open("wt") truncated it.
WriteFileRaises ==
    /\ pc = "writing"
    /\ \E opened \in BOOLEAN :
          fs' = IF opened THEN [fs EXCEPT ![args.out_path] = File(<<>>)] ELSE fs
    /\ pc' = "raising"
    /\ UNCHANGED <<args, fs0, sheet_file, out_file, notice, stdout, prompts, response,
                 avars, svars>>

\* Line 150, __exit__: the temporary file is released and the call returns or
\* the exception propagates.
ExitWith ==
    /\ pc \in {"leaving", "raising"}
    /\ sheet_file' = [sheet_file EXCEPT !.state = ReleaseOnExit(pc = "raising")]
    /\ pc' = IF pc = "raising" THEN "raised" ELSE "returned"
    /\ UNCHANGED <<args, fs, fs0, out_file, notice, stdout, prompts, response,
                 avars, svars>>

WriterNext ==
    \/ Stage
    \/ SkipDiff
    \/ ShowDiff
    \/ ShowDiffRaises
    \/ SkipWrite
    \/ CopyToStdout
    \/ NoPrompt
    \/ Prompt
    \/ PromptRaises
    \/ WriteFile
    \/ WriteFileRaises
    \/ ExitWith

\* ------------------------------------------------------ sodar/api.py

UrlChars == {"h", "/"}
Urls == SeqsUpTo(UrlChars, MaxUrlLen)
ProjectUuids == {"P", "Q"}
StudyIds == {"S1", "S2"}
AssayIds == {"A1", "A2"}
AssayArgs == {None, "", "A1", "A9"}

\* models.Investigation as the client decodes it: studies maps each study to
\* the keys of its assays mapping.
Investigations == UNION {[S -> SUBSET AssayIds] : S \in SUBSET StudyIds}

\* Python truth of an optional string: None and "" are false.
Truthy(x) == x # None /\ x # ""

NormalizeUrlOnce(sodar_url) ==
    IF sodar_url # <<>> /\ sodar_url[Len(sodar_url)] = "/"
    THEN SubSeq(sodar_url, 1, Len(sodar_url) - 1)
    ELSE sodar_url

\* Lines 26-27, 44-45, 62-63, 76-77, 108-109:
\* `while sodar_url.endswith("/"): sodar_url = sodar_url[:-1]`.
RECURSIVE NormalizeUrl(_)
NormalizeUrl(sodar_url) ==
    IF sodar_url # <<>> /\ sodar_url[Len(sodar_url)] = "/"
    THEN NormalizeUrl(SubSeq(sodar_url, 1, Len(sodar_url) - 1))
    ELSE sodar_url

\* The url_tpl of each function: "%(sodar_url)s/<path>/%(project_uuid)s", the
\* "/" after sodar_url kept as a character of its own.
FormatUrl(sodar_url, path, project_uuid) ==
    sodar_url \o <<"/", path, project_uuid>>

InvestigationPath == "samplesheets/api/investigation/retrieve/"
SampleSheetPath == "samplesheets/api/export/json/"
ListPath == "landingzones/api/list/"
CreatePath == "landingzones/api/create/"

\* A request as sent, with what the server answered: r.raise_for_status()
\* raises unless ok.
Request(method, url, data, ok) ==
    [method |-> method, url |-> url, data |-> data, ok |-> ok]

\* Lines 24-35: the GET of _investigations_get.
InvestigationRequest(sodar_url, project_uuid, ok) ==
    Request("GET", FormatUrl(NormalizeUrl(sodar_url), InvestigationPath, project_uuid),
            None, ok)

\* Lines 42-53: the GET of _samplesheets_get.
SampleSheetRequest(sodar_url, project_uuid, ok) ==
    Request("GET", FormatUrl(NormalizeUrl(sodar_url), SampleSheetPath, project_uuid),
            None, ok)

\* Lines 60-71: the GET of _landingzones_list.
ListRequest(sodar_url, project_uuid, ok) ==
    Request("GET", FormatUrl(NormalizeUrl(sodar_url), ListPath, project_uuid),
            None, ok)

\* Lines 96-101: the POST of _landingzones_create; sodar_url is normalised
\* by then.
CreateRequest(sodar_url, project_uuid, assay_uuid, ok) ==
    Request("POST", FormatUrl(sodar_url, CreatePath, project_uuid), assay_uuid, ok)

ResolveAlways(assay_uuid) == TRUE

\* Line 80: `if not assay_uuid`.
NeedsResolution(assay_uuid) == ~Truthy(assay_uuid)

ResolveAssayFirst(investigation) ==
    IF Cardinality(DOMAIN investigation) < 1
    THEN [error |-> "Invalid number of studies in investigation!", assay_uuid |-> None]
    ELSE LET study == investigation[CHOOSE s \in DOMAIN investigation : TRUE]
         IN  IF Cardinality(study) < 1
             THEN [error |-> "Invalid number of assays in investigation!",
                   assay_uuid |-> None]
             ELSE [error |-> "", assay_uuid |-> CHOOSE a \in study : TRUE]

\* Lines 84-93: exactly one study and exactly one assay, or an Exception.
ResolveAssay(investigation) ==
    IF Cardinality(DOMAIN investigation) # 1
    THEN [error |-> "Invalid number of studies in investigation!", assay_uuid |-> None]
    ELSE LET study == investigation[CHOOSE s \in DOMAIN investigation : TRUE]
         IN  IF Cardinality(study) # 1
             THEN [error |-> "Invalid number of assays in investigation!",
                   assay_uuid |-> None]
             ELSE [error |-> "", assay_uuid |-> CHOOSE a \in study : TRUE]

\* _investigations_get, lines 24-35.
InvestigationsGet ==
    /\ call.op = "none"
    /\ \E sodar_url \in Urls, project_uuid \in ProjectUuids, ok \in BOOLEAN :
        /\ call' = Call("investigations.get", sodar_url, project_uuid, None)
        /\ requests' = <<InvestigationRequest(sodar_url, project_uuid, ok)>>
        /\ result' = IF ok THEN "Investigation" ELSE "HTTPError"
        /\ UNCHANGED <<server, wvars, svars>>

\* _samplesheets_get, lines 42-53.
SamplesheetsGet ==
    /\ call.op = "none"
    /\ \E sodar_url \in Urls, project_uuid \in ProjectUuids, ok \in BOOLEAN :
        /\ call' = Call("samplesheets.get", sodar_url, project_uuid, None)
        /\ requests' = <<SampleSheetRequest(sodar_url, project_uuid, ok)>>
        /\ result' = IF ok THEN "json" ELSE "HTTPError"
        /\ UNCHANGED <<server, wvars, svars>>

\* _landingzones_list, lines 60-71.
LandingzonesList ==
    /\ call.op = "none"
    /\ \E sodar_url \in Urls, project_uuid \in ProjectUuids, ok \in BOOLEAN :
        /\ call' = Call("landing_zones.list", sodar_url, project_uuid, None)
        /\ requests' = <<ListRequest(sodar_url, project_uuid, ok)>>
        /\ result' = IF ok THEN "LandingZones" ELSE "HTTPError"
        /\ UNCHANGED <<server, wvars, svars>>

\* _landingzones_create, lines 74-103.  get_ok and post_ok are the server's
\* answers to the requests the call comes to issue.
LandingzonesCreate ==
    /\ call.op = "none"
    /\ \E sodar_url \in Urls, project_uuid \in ProjectUuids, assay_uuid \in AssayArgs,
       get_ok \in BOOLEAN, post_ok \in BOOLEAN :
        LET url  == NormalizeUrl(sodar_url)
            get  == InvestigationRequest(url, project_uuid, get_ok)
            res  == ResolveAssay(server)
            post(a) == CreateRequest(url, project_uuid, a, post_ok)
            done == IF post_ok THEN "LandingZone" ELSE "HTTPError"
        IN  /\ call' = Call("landing_zones.create", sodar_url, project_uuid, assay_uuid)
            /\ IF ~NeedsResolution(assay_uuid)
               THEN /\ requests' = <<post(assay_uuid)>>
                    /\ result' = done
               ELSE IF ~get_ok
               THEN /\ requests' = <<get>>
                    /\ result' = "HTTPError"
               ELSE IF res.error # ""
               THEN /\ requests' = <<get>>
                    /\ result' = res.error
               ELSE /\ requests' = <<get, post(res.assay_uuid)>>
                    /\ result' = done
            /\ UNCHANGED <<server, wvars, svars>>

\* _landingzones_move, lines 106-109: the URL is normalised and nothing is
\* sent.
LandingzonesMove ==
    /\ call.op = "none"
    /\ \E sodar_url \in Urls, landing_zone_uuid \in {"Z"} :
        /\ call' = Call("landing_zones.move", sodar_url, landing_zone_uuid, None)
        /\ requests' = <<>>
        /\ result' = None
        /\ UNCHANGED <<server, wvars, svars>>

\* Before the call: the server holds any investigation.
ApiInit ==
    /\ server \in Investigations
    /\ call = NoCall
    /\ requests = <<>>
    /\ result = "none"
    /\ args = NoArgs
    /\ fs = [p \in Paths |-> Absent]
    /\ fs0 = fs
    /\ sheet_file = [state |-> "none", text |-> <<>>]
    /\ out_file = <<>>
    /\ notice = FALSE
    /\ stdout = <<>>
    /\ prompts = 0
    /\ response = NoResponse
    /\ pc = "idle"
    /\ sheet_call = NoSheetCall
    /\ reader_calls = <<>>
    /\ sheet_result = NoSheetResult

ApiNext ==
    \/ InvestigationsGet
    \/ SamplesheetsGet
    \/ LandingzonesList
    \/ LandingzonesCreate
    \/ LandingzonesMove

\* ------------------------------------------------- _SheetClient (api.py)

StudyPaths == {<<"s", i>> : i \in 1..MaxStudies}
AssayPaths == {<<"a", i>> : i \in 1..MaxAssays}
InvestigationFile == <<"i", 1>>

\* The keys of a JSON object, in its order: sequences without repetition.
Orderings(S) ==
    {q \in SeqsUpTo(S, Cardinality(S)) : \A i, j \in 1..Len(q) : i # j => q[i] # q[j]}

ReaderCall(reader, study_id, assay_id, filename) ==
    [reader |-> reader, study_id |-> study_id, assay_id |-> assay_id,
     filename |-> filename]

\* Lines 151-154: InvestigationReader.from_stream(input_file, filename).
InvestigationRead == ReaderCall("InvestigationReader", NoPath, NoPath, InvestigationFile)

\* Lines 156-158: StudyReader.from_stream(study_id=path, ..., filename=path).
StudyRead(path) == ReaderCall("StudyReader", path, NoPath, path)

\* The Study a StudyReader returns: its file attribute is the filename it
\* was given.
Study(read) == [file |-> read.filename]

\* Lines 165-170: AssayReader.from_stream(study_id=study.file, assay_id=path,
\* ..., filename=path).
AssayRead(study, path) == ReaderCall("AssayReader", study.file, path, path)

TwoStudiesAllowed(studies) == Len(studies) > 2

\* Line 161: `if len(studies) > 1`.
TooManyStudies(studies) == Len(studies) > 1

\* _SheetClient.get, lines 149-173, with get_raw (lines 139-147) and the GET
\* of _samplesheets_get.  studies and assays are the keys of the payload's
\* mappings; http_ok is the server's answer; the fail_at-th reader call, if
\* the call comes to make it, raises (0: none does).
SheetGet ==
    /\ sheet_call.op = "none"
    /\ \E owner_url \in {<<"h">>, <<"h", "/">>},
       owner_project_uuid \in {None, "P"}, project_uuid \in {None, "Q"},
       studies \in Orderings(StudyPaths), assays \in Orderings(AssayPaths),
       http_ok \in BOOLEAN, fail_at \in 0..(1 + MaxStudies + MaxAssays) :
        LET project == IF Truthy(project_uuid) THEN project_uuid ELSE owner_project_uuid
            first   == <<InvestigationRead>>
                       \o [i \in 1..Len(studies) |-> StudyRead(studies[i])]
            study   == Study(first[2])
            all     == first \o [i \in 1..Len(assays) |-> AssayRead(study, assays[i])]
            bundle  == [investigation_filename |-> InvestigationFile,
                        studies |-> [p \in {studies[i] : i \in 1..Len(studies)}
                                        |-> Study(StudyRead(p))],
                        assays |-> [p \in {assays[i] : i \in 1..Len(assays)}
                                       |-> AssayRead(study, p)]]
            ends(rq, calls, kind, b) ==
                /\ requests' = rq
                /\ reader_calls' = calls
                /\ sheet_result' = SheetResult(kind, b)
            rq == <<SampleSheetRequest(owner_url, project, http_ok)>>
        IN  /\ sheet_call' = SheetCall("get", owner_project_uuid, project_uuid,
                                       studies, assays, http_ok, fail_at)
            /\ IF ~Truthy(project_uuid) /\ ~Truthy(owner_project_uuid)
               THEN ends(<<>>, <<>>, "ParameterException", NoBundle)
               ELSE IF ~http_ok
               THEN ends(rq, <<>>, "HTTPError", NoBundle)
               ELSE IF fail_at \in 1..Len(first)
               THEN ends(rq, SubSeq(first, 1, fail_at), "ReaderError", NoBundle)
               ELSE IF TooManyStudies(studies)
               THEN ends(rq, first, "UnsupportedIsaTabFeatureException", NoBundle)
               ELSE IF Len(studies) = 0
               THEN ends(rq, first, "IndexError", NoBundle)
               ELSE IF fail_at \in (Len(first) + 1)..Len(all)
               THEN ends(rq, SubSeq(all, 1, fail_at), "ReaderError", NoBundle)
               ELSE ends(rq, all, "IsaData", bundle)
            /\ UNCHANGED <<server, call, result, wvars>>

\* Before the call.
SheetInit ==
    /\ sheet_call = NoSheetCall
    /\ reader_calls = <<>>
    /\ sheet_result = NoSheetResult
    /\ server = <<>>
    /\ call = NoCall
    /\ requests = <<>>
    /\ result = "none"
    /\ args = NoArgs
    /\ fs = [p \in Paths |-> Absent]
    /\ fs0 = fs
    /\ sheet_file = [state |-> "none", text |-> <<>>]
    /\ out_file = <<>>
    /\ notice = FALSE
    /\ stdout = <<>>
    /\ prompts = 0
    /\ response = NoResponse
    /\ pc = "idle"

SheetNext == SheetGet

\* -------------------------------------------------------- specifications

SpecWriter == WriterInit /\ [][WriterNext]_vars

SpecApi == ApiInit /\ [][ApiNext]_vars

SpecSheet == SheetInit /\ [][SheetNext]_vars

\* ------------------------------------------- properties: overwrite_helper

\* The call is a write to a file: do_write and a destination other than "-".
WritesToFile == args.do_write /\ args.out_path # "-"

\* A response that starts with "y" or "Y".
Affirmative(resp) == resp # NoResponse /\ Len(resp) >= 1 /\ resp[1] \in {"y", "Y"}

\* The line-level diff between the destination at the start of the call and
\* the staged contents is empty.
SameLines ==
    (IF args.out_path # "-" /\ fs0[args.out_path].exists
     THEN splitlines(ReadText(fs0[args.out_path].text))
     ELSE <<>>) = splitlines(ReadText(args.contents))

\* C1: writing to a file with answer_yes set issues no prompt and leaves the
\* destination holding the staged contents.
C1_AssumeYesOverwrites ==
    (pc = "returned" /\ WritesToFile /\ args.answer_yes)
        => /\ prompts = 0
           /\ fs[args.out_path] = File(args.contents)

\* C2: writing to a file without answer_yes prompts exactly once; the
\* destination changes only after a response starting with "y" or "Y", and
\* then holds the staged text; after any other response the file system is as
\* it was and the call returns without raising.
C2_PromptGatesWrite ==
    (WritesToFile /\ ~args.answer_yes)
        => /\ prompts <= 1
           /\ (response # NoResponse \/ pc \in {"writing", "leaving", "returned"})
                 => prompts = 1
           /\ fs # fs0 => Affirmative(response)
           /\ (response # NoResponse /\ ~Affirmative(response))
                 => fs = fs0 /\ pc \in {"leaving", "returned"}
           /\ (pc = "returned" /\ Affirmative(response))
                 => fs = [fs0 EXCEPT ![args.out_path] = File(ReadText(args.contents))]

\* C2 witness: a declined overwrite of an existing, different file.
C2_Witness ==
    /\ pc = "returned" /\ WritesToFile /\ ~args.answer_yes
    /\ response = <<"n", "y">>
    /\ fs0[args.out_path].exists
    /\ fs0[args.out_path].text # args.contents
    /\ fs = fs0

\* C3: with do_write false the file system never changes and nothing is
\* prompted or copied to stdout, whatever the other arguments.
C3_NoWriteNoMutation ==
    ~args.do_write => fs = fs0 /\ prompts = 0 /\ stdout = <<>>

\* C3 witness: a finished diff-only call against an existing file that
\* differs, with side-by-side and answer_yes set.
C3_Witness ==
    /\ pc = "returned" /\ ~args.do_write
    /\ args.show_diff /\ args.show_diff_side_by_side /\ args.answer_yes
    /\ args.out_path = "f" /\ fs0["f"].exists
    /\ out_file # <<>>

\* C4: with destination "-" and do_write, stdout receives the staged contents
\* verbatim, nothing is prompted, no file changes, and the diff shown is the
\* one against no lines.
C4_StdoutVerbatim ==
    (pc = "returned" /\ args.do_write /\ args.out_path = "-")
        => /\ stdout = args.contents
           /\ prompts = 0
           /\ fs = fs0
           /\ args.show_diff
                 => out_file = DiffLines(<<>>, splitlines(ReadText(args.contents)))

\* C7: with show_diff, the "not changed" notice is logged exactly when the
\* line-level diff is empty, in either mode.
C7_UnchangedNotice ==
    (pc = "returned" /\ args.show_diff) => (notice <=> SameLines)

\* C10: the temporary file exists only inside the call, is released on every
\* way out, and the destination is not written before the confirmation.
C10_TempFileReleased ==
    /\ pc = "start" => sheet_file.state = "none"
    /\ pc \in {"returned", "raised"} => sheet_file.state = "closed"
    /\ pc \in {"staged", "diffed", "writing", "leaving", "raising"}
          => sheet_file.state = "open"
    /\ fs # fs0 => response # NoResponse /\ pc \in {"writing", "leaving", "raising",
                                                     "returned", "raised"}

\* C10 witness: the write raised after the destination was opened, and the
\* temporary file is gone when the exception reaches the caller.
C10_Witness ==
    /\ pc = "raised"
    /\ Affirmative(response)
    /\ fs # fs0
    /\ sheet_file.state = "closed"

\* ---------------------------------------------- properties: sodar/api.py

\* sodar_url without its trailing slashes: up to its last character other
\* than "/".
Base(sodar_url) ==
    LET others == {i \in 1..Len(sodar_url) : sodar_url[i] # "/"}
    IN  SubSeq(sodar_url, 1,
               IF others = {} THEN 0 ELSE CHOOSE i \in others : \A j \in others : j <= i)

\* The investigation has exactly one study and that study exactly one assay.
OneStudyOneAssay(investigation) ==
    \E s \in StudyIds, a \in AssayIds :
        DOMAIN investigation = {s} /\ investigation[s] = {a}

ImplicitCreate == call.op = "landing_zones.create" /\ call.assay_uuid \in {None, ""}

Fetched == Len(requests) >= 1 /\ requests[1].method = "GET" /\ requests[1].ok

\* C5: create without assay_uuid, the investigation fetched with other than
\* one study, or one study with other than one assay: the call raises the
\* "Invalid number of ..." exception and sends no POST.
C5_AmbiguousTargetFails ==
    (ImplicitCreate /\ Fetched /\ ~OneStudyOneAssay(server))
        => /\ result = (IF Cardinality(DOMAIN server) # 1
                        THEN "Invalid number of studies in investigation!"
                        ELSE "Invalid number of assays in investigation!")
           /\ \A i \in 1..Len(requests) : requests[i].method # "POST"

\* C5 witness: one study with two assays.
C5_Witness ==
    /\ ImplicitCreate /\ Fetched
    /\ Cardinality(DOMAIN server) = 1
    /\ \E s \in DOMAIN server : server[s] = AssayIds

\* C6: create without assay_uuid against one study with one assay issues the
\* investigation GET and then one POST carrying that assay; create with an
\* assay_uuid issues only the POST, carrying the assay_uuid passed.
C6_ResolvedAssayPosted ==
    /\ (ImplicitCreate /\ Fetched /\ OneStudyOneAssay(server))
          => /\ Len(requests) = 2
             /\ requests[1].url = Base(call.sodar_url) \o <<"/", InvestigationPath, call.id>>
             /\ requests[2].method = "POST"
             /\ requests[2].url = Base(call.sodar_url) \o <<"/", CreatePath, call.id>>
             /\ \E s \in DOMAIN server : server[s] = {requests[2].data}
    /\ (call.op = "landing_zones.create" /\ call.assay_uuid \notin {None, ""})
          => /\ Len(requests) = 1
             /\ requests[1].method = "POST"
             /\ requests[1].url = Base(call.sodar_url) \o <<"/", CreatePath, call.id>>
             /\ requests[1].data = call.assay_uuid

\* C6 witness: the assay A2 of the only study was resolved and posted.
C6_Witness ==
    /\ ImplicitCreate /\ Fetched
    /\ server = [s \in {"S1"} |-> {"A2"}]
    /\ Len(requests) = 2 /\ requests[2].data = "A2" /\ result = "LandingZone"

\* C9: every request of every entry point goes to the URL made of sodar_url
\* without its trailing slashes, one "/", and the path; normalising is
\* idempotent.
C9_UrlNormalized ==
    /\ \A i \in 1..Len(requests) :
          LET url == requests[i].url
              n   == Len(url) - 3
          IN  /\ n >= 0
              /\ SubSeq(url, 1, n) = Base(call.sodar_url)
              /\ ~(n > 0 /\ url[n] = "/")
              /\ url[n + 1] = "/"
              /\ url[n + 3] = call.id
    /\ NormalizeUrl(NormalizeUrl(call.sodar_url)) = NormalizeUrl(call.sodar_url)
    /\ NormalizeUrl(call.sodar_url) = Base(call.sodar_url)

\* C9 witness: a create call given two trailing slashes sent both its
\* requests to the base with one "/".
C9_Witness ==
    /\ call.op = "landing_zones.create"
    /\ call.sodar_url = <<"h", "/", "/">>
    /\ Len(requests) = 2
    /\ requests[1].url = <<"h", "/", InvestigationPath, call.id>>
    /\ requests[2].url = <<"h", "/", CreatePath, call.id>>

\* -------------------------------------------- properties: _SheetClient

AssayReads == {i \in 1..Len(reader_calls) : reader_calls[i].reader = "AssayReader"}

\* C8: a payload with more than one study never yields a bundle nor reaches an
\* assay reader, and ends in UnsupportedIsaTabFeatureException once the
\* payload is fetched and its investigation and studies are read; a bundle
\* comes only from exactly one study, with every assay read under that
\* study's path and keyed by its own path.
C8_SingleStudyOnly ==
    LET studies == sheet_call.studies
        assays  == sheet_call.assays
        bundle  == sheet_result.bundle
    IN  /\ Len(studies) > 1
            => /\ sheet_result.kind # "IsaData"
               /\ AssayReads = {}
               /\ (Len(requests) = 1 /\ sheet_call.http_ok
                   /\ sheet_call.fail_at \notin 1..(1 + Len(studies)))
                     => sheet_result.kind = "UnsupportedIsaTabFeatureException"
        /\ sheet_result.kind = "IsaData"
            => /\ Len(studies) = 1
               /\ DOMAIN bundle.studies = {studies[1]}
               /\ DOMAIN bundle.assays = {assays[i] : i \in 1..Len(assays)}
               /\ \A p \in DOMAIN bundle.assays :
                     /\ bundle.assays[p].study_id = studies[1]
                     /\ bundle.assays[p].assay_id = p
               /\ Cardinality(AssayReads) = Len(assays)
               /\ \A i \in AssayReads : reader_calls[i].study_id = studies[1]
        /\ sheet_result.kind # "IsaData" => sheet_result.bundle = NoBundle

\* C8 witness: two studies and two assays, fetched and read without error,
\* refused.
C8_Witness ==
    /\ Len(sheet_call.studies) = 2 /\ Len(sheet_call.assays) = 2
    /\ sheet_call.fail_at = 0
    /\ sheet_result.kind = "UnsupportedIsaTabFeatureException"
    /\ Len(reader_calls) = 3

====
